---- MODULE Spec2Model ----
(***************************************************************************)
(* Model of the byte-calc on-chain program (src/byte-calc/src/lib.rs).     *)
(*                                                                         *)
(* An i64 is held as its 64-bit two's complement pattern, written as four  *)
(* 16-bit limbs, least significant limb first.  All arithmetic is done on  *)
(* the limbs, so every value keeps its real width.                          *)
(***************************************************************************)
EXTENDS Integers, Sequences, FiniteSets, TLC

\* ------------------------------------------------------------------------
\* Bounds of the explored inputs
\* ------------------------------------------------------------------------
\* operands -MaxSmall..MaxSmall are explored next to the corner values
MaxSmall == 2
\* payloads are cut short or padded by up to MaxTrim bytes
MaxTrim == 1

\* ------------------------------------------------------------------------
\* 64-bit integers as limbs
\* ------------------------------------------------------------------------
Limb == 2^16
Half == 2^15

Zero == <<0, 0, 0, 0>>
One == <<1, 0, 0, 0>>
I64_MIN == <<0, 0, 0, Half>>
I64_MAX == <<Limb - 1, Limb - 1, Limb - 1, Half - 1>>

IsNeg(x) == x[Len(x)] >= Half

\* limbs i.. of a + b + c (carry in c), as many limbs as a has
RECURSIVE AddCarry(_, _, _, _)
AddCarry(a, b, i, c) ==
    IF i > Len(a) THEN <<>>
    ELSE LET s == a[i] + b[i] + c
         IN <<s % Limb>> \o AddCarry(a, b, i + 1, s \div Limb)

Not(a) == [i \in 1..Len(a) |-> Limb - 1 - a[i]]
Zeros(n) == [i \in 1..n |-> 0]

wrapping_add(a, b) == AddCarry(a, b, 1, 0)
wrapping_sub(a, b) == AddCarry(a, Not(b), 1, 1)
wrapping_neg(a) == AddCarry(Not(a), Zeros(Len(a)), 1, 1)

\* the i64 of a small literal n, |n| < 2^31
Lit(n) ==
    LET m == IF n < 0 THEN -n ELSE n
        p == <<m % Limb, m \div Limb, 0, 0>>
    IN IF n < 0 THEN wrapping_neg(p) ELSE p

\* signed overflow of a + b and of a - b
add_overflows(a, b) ==
    IsNeg(a) = IsNeg(b) /\ IsNeg(wrapping_add(a, b)) # IsNeg(a)
sub_overflows(a, b) ==
    IsNeg(a) # IsNeg(b) /\ IsNeg(wrapping_sub(a, b)) # IsNeg(a)

\* a[i] * d + c for limbs a[i], d, c, split so that no step exceeds 2^31
LimbMulLo(x, d, c) ==
    LET p0 == x * (d % 256) + c
        p1 == x * (d \div 256)
    IN (p0 + 256 * (p1 % 256)) % Limb
LimbMulHi(x, d, c) ==
    LET p0 == x * (d % 256) + c
        p1 == x * (d \div 256)
    IN (p0 + 256 * (p1 % 256)) \div Limb + p1 \div 256

\* limbs i.. of a * d + c for one limb d, truncated to the length of a
RECURSIVE MulRow(_, _, _, _)
MulRow(a, d, i, c) ==
    IF i > Len(a) THEN <<>>
    ELSE <<LimbMulLo(a[i], d, c)>> \o MulRow(a, d, i + 1, LimbMulHi(a[i], d, c))

ShiftLimbs(x, k) == [i \in 1..Len(x) |-> IF i <= k THEN 0 ELSE x[i - k]]

\* acc + a * b[j..] * Limb^(j-1), truncated to the length of a
RECURSIVE MulAcc(_, _, _, _)
MulAcc(a, b, j, acc) ==
    IF j > Len(b) THEN acc
    ELSE MulAcc(a, b, j + 1,
                AddCarry(acc, ShiftLimbs(MulRow(a, b[j], 1, 0), j - 1), 1, 0))

\* product modulo Limb^Len(a)
MulTrunc(a, b) == MulAcc(a, b, 1, Zeros(Len(a)))

wrapping_mul(a, b) == MulTrunc(a, b)

\* sign extension to n limbs
SignExtend(x, n) ==
    [i \in 1..n |-> IF i <= Len(x) THEN x[i]
                    ELSE IF IsNeg(x) THEN Limb - 1 ELSE 0]

\* the exact product of two i64 as a 128-bit two's complement pattern
WideMul(a, b) == MulTrunc(SignExtend(a, 8), SignExtend(b, 8))

Fits64(w) == w = SignExtend(SubSeq(w, 1, 4), Len(w))

mul_overflows(a, b) == ~Fits64(WideMul(a, b))

\* unsigned comparison a >= b from limb i downwards
RECURSIVE UGeFrom(_, _, _)
UGeFrom(a, b, i) ==
    IF i = 0 THEN TRUE
    ELSE IF a[i] # b[i] THEN a[i] > b[i]
    ELSE UGeFrom(a, b, i - 1)
UGe(a, b) == UGeFrom(a, b, Len(a))

Bit(n, i) == (n[(i \div 16) + 1] \div (2^(i % 16))) % 2

\* unsigned shift-subtract division of n by d: brings down bits i..lo of n
\* into the partial remainder r, shifting the quotient bits into q
RECURSIVE UDivStep(_, _, _, _, _, _)
UDivStep(n, d, i, lo, q, r) ==
    IF i < lo THEN [q |-> q, r |-> r]
    ELSE LET r2 == AddCarry(r, r, 1, Bit(n, i))
             q2 == AddCarry(q, q, 1, 0)
         IN IF UGe(r2, d) /\ UGe(q2, Zero)
            THEN UDivStep(n, d, i - 1, lo, AddCarry(q2, One, 1, 0), wrapping_sub(r2, d))
            ELSE UDivStep(n, d, i - 1, lo, q2, r2)

\* the sixteen bits of limb k of n, continuing from the partial result s
UDivLimb(n, d, k, s) == UDivStep(n, d, 16 * k - 1, 16 * (k - 1), s.q, s.r)

\* quotient and remainder of the unsigned 64-bit n by d, d # 0
UDivMod(n, d) ==
    UDivLimb(n, d, 1,
        UDivLimb(n, d, 2,
            UDivLimb(n, d, 3,
                UDivLimb(n, d, 4, [q |-> Zero, r |-> Zero]))))

\* magnitude of an i64 as an unsigned 64-bit pattern
unsigned_abs(x) == IF IsNeg(x) THEN wrapping_neg(x) ELSE x

\* i64 `/` and `%` for a non-zero divisor: truncation toward zero, and the
\* remainder takes the sign of the dividend
div_overflows(a, b) == a = I64_MIN /\ b = Lit(-1)

i64_div(a, b) ==
    LET quotient == UDivMod(unsigned_abs(a), unsigned_abs(b)).q
    IN IF IsNeg(a) # IsNeg(b) THEN wrapping_neg(quotient) ELSE quotient

i64_rem(a, b) ==
    LET remainder == UDivMod(unsigned_abs(a), unsigned_abs(b)).r
    IN IF IsNeg(a) THEN wrapping_neg(remainder) ELSE remainder

\* `x as u32`: the low 32 bits of the pattern
as_u32(x) == <<x[1], x[2]>>

\* ------------------------------------------------------------------------
\* The arithmetic operators of the build
\* ------------------------------------------------------------------------
\* The outcome of an arithmetic expression: a value, or a panic (the
\* program aborts).  With overflow checks compiled in, `+ - *` panic on
\* signed overflow; without them they wrap.  `/` and `%` panic on
\* i64::MIN / -1 in every build.
Value(v) == [panic |-> FALSE, val |-> v]
Panicked == [panic |-> TRUE, val |-> Zero]

i64_add(a, b, checks) ==
    IF checks /\ add_overflows(a, b) THEN Panicked ELSE Value(wrapping_add(a, b))

\* faulty variant of i64_sub: the operands taken in the wrong order
i64_sub_reversed(a, b, checks) ==
    IF checks /\ sub_overflows(b, a) THEN Panicked ELSE Value(wrapping_sub(b, a))

i64_sub(a, b, checks) ==
    IF checks /\ sub_overflows(a, b) THEN Panicked ELSE Value(wrapping_sub(a, b))

i64_mul(a, b, checks) ==
    IF checks /\ mul_overflows(a, b) THEN Panicked ELSE Value(wrapping_mul(a, b))

i64_checked_div(a, b) ==
    IF div_overflows(a, b) THEN Panicked ELSE Value(i64_div(a, b))

i64_checked_rem(a, b) ==
    IF div_overflows(a, b) THEN Panicked ELSE Value(i64_rem(a, b))

\* u32 helpers for the exponent, two limbs
U32IsZero(e) == e[1] = 0 /\ e[2] = 0
U32GreaterOne(e) == e[2] > 0 \/ e[1] > 1
U32Odd(e) == e[1] % 2 = 1
U32Halve(e) == <<(e[1] \div 2) + (e[2] % 2) * Half, e[2] \div 2>>

\* the loop of i64::pow: square and multiply, each `*` an i64 multiplication.
\* s holds the loop variables; at most `fuel` iterations are run
RECURSIVE PowLoop(_, _, _)
PowLoop(s, checks, fuel) ==
    IF fuel = 0 \/ s.panic \/ ~U32GreaterOne(s.exp) THEN s
    ELSE LET a2 == IF U32Odd(s.exp) THEN i64_mul(s.acc, s.base, checks)
                   ELSE Value(s.acc)
             b2 == i64_mul(s.base, s.base, checks)
         IN IF a2.panic \/ b2.panic
            THEN [s EXCEPT !.panic = TRUE]
            ELSE PowLoop([base |-> b2.val, acc |-> a2.val,
                          exp |-> U32Halve(s.exp), panic |-> FALSE],
                         checks, fuel - 1)

\* i64::pow(self, exp: u32); a u32 exponent is halved at most 32 times
i64_pow(base, exp, checks) ==
    IF U32IsZero(exp) THEN Value(One)
    ELSE LET s0 == [base |-> base, acc |-> One, exp |-> exp, panic |-> FALSE]
             s == PowLoop(PowLoop(PowLoop(PowLoop(s0, checks, 8),
                                          checks, 8), checks, 8), checks, 8)
         IN IF s.panic THEN Panicked ELSE i64_mul(s.acc, s.base, checks)

\* ------------------------------------------------------------------------
\* Wire format (borsh)
\* ------------------------------------------------------------------------
\* i64::to_le_bytes and i64::from_le_bytes
to_le_bytes(x) ==
    [i \in 1..8 |-> IF i % 2 = 1 THEN x[(i + 1) \div 2] % 256
                    ELSE x[i \div 2] \div 256]

\* faulty variant of from_le_bytes: the bytes read most significant first
from_be_bytes(b) == [i \in 1..4 |-> b[10 - 2 * i] + 256 * b[9 - 2 * i]]

from_le_bytes(b) == [i \in 1..4 |-> b[2 * i - 1] + 256 * b[2 * i]]

CalculatorInstruction(operation, left, right) ==
    [operation |-> operation, left |-> left, right |-> right]

\* borsh::to_vec(&instruction_struct): the fields in declared order
to_vec(instr) ==
    <<instr.operation>> \o to_le_bytes(instr.left) \o to_le_bytes(instr.right)

\* the readers of the derived BorshDeserialize: each takes its bytes off the
\* front of the buffer, or fails when the buffer is too short
ReadFailed == [ok |-> FALSE, val |-> <<>>, rest |-> <<>>]

read_u8(buf) ==
    IF Len(buf) < 1 THEN ReadFailed
    ELSE [ok |-> TRUE, val |-> <<buf[1]>>, rest |-> SubSeq(buf, 2, Len(buf))]

read_i64(buf) ==
    IF Len(buf) < 8 THEN ReadFailed
    ELSE [ok |-> TRUE, val |-> <<from_le_bytes(SubSeq(buf, 1, 8))>>,
          rest |-> SubSeq(buf, 9, Len(buf))]

\* faulty variant of try_from_slice: bytes left over are not looked at
try_from_slice_lenient(data) ==
    LET op == read_u8(data)
        l == read_i64(op.rest)
        r == read_i64(l.rest)
    IN IF ~op.ok THEN <<>>
       ELSE IF ~l.ok THEN <<>>
       ELSE IF ~r.ok THEN <<>>
       ELSE <<CalculatorInstruction(op.val[1], l.val[1], r.val[1])>>

\* CalculatorInstruction::try_from_slice: <<instruction>>, or <<>> when a
\* field cannot be read or bytes are left over
try_from_slice(data) ==
    LET op == read_u8(data)
        l == read_i64(op.rest)
        r == read_i64(l.rest)
    IN IF ~op.ok THEN <<>>
       ELSE IF ~l.ok THEN <<>>
       ELSE IF ~r.ok THEN <<>>
       ELSE IF r.rest # <<>> THEN <<>>
       ELSE <<CalculatorInstruction(op.val[1], l.val[1], r.val[1])>>

\* ------------------------------------------------------------------------
\* Inputs
\* ------------------------------------------------------------------------
Pow2_32 == <<0, 0, 1, 0>>

Operations == (0..6) \cup {9, 255}

Operands ==
    {Lit(n) : n \in -MaxSmall..MaxSmall}
        \cup {Lit(10), I64_MIN, I64_MAX, Pow2_32}

Instructions ==
    {CalculatorInstruction(o, l, r) : o \in Operations, l \in Operands, r \in Operands}

\* the instructions whose encodings are also sent malformed
Seeds ==
    {CalculatorInstruction(o, l, l) : o \in Operations, l \in Operands}

\* a malformed payload: an encoding with its last -m bytes cut off (all of
\* them for m = -17), or with m zero bytes appended
Trims == ((-MaxTrim..MaxTrim) \ {0}) \cup {-17}

Pad(m) == [i \in 1..m |-> 0]

Mangle(payload, m) ==
    IF m <= 0 THEN SubSeq(payload, 1, Len(payload) + m) ELSE payload \o Pad(m)

\* ------------------------------------------------------------------------
\* The program
\* ------------------------------------------------------------------------
VARIABLES
    overflow_checks,    \* build profile: are overflow checks compiled in
    pc,                 \* position in process_instruction
    sent,               \* the instruction struct the client serialized
    instruction_data,   \* the payload of the call
    instruction,        \* <<decoded instruction>>, <<>> before decoding
    result,             \* <<value of the match>>, <<>> while there is none
    log,                \* the msg! lines of the call, in order
    ret,                \* what the call returned
    exit,               \* source line the call left process_instruction at
    prev                \* exit and ret of the call before this one

vars == <<overflow_checks, pc, sent, instruction_data, instruction, result,
          log, ret, exit, prev>>

Line(fmt, args) == [fmt |-> fmt, args |-> args]

OperationFmt(op) ==
    CASE op = 0 -> "Addition: {} + {}"
      [] op = 1 -> "Subtraction: {} - {}"
      [] op = 2 -> "Multiplication: {} * {}"
      [] op = 3 -> "Division: {} / {}"
      [] op = 4 -> "Modulus: {} % {}"
      [] op = 5 -> "Power: {} ^ {}"

ResultLine(v) == Line("Result = {}", <<v>>)

Init ==
    /\ overflow_checks \in BOOLEAN
    /\ pc = "idle"
    /\ sent = <<>>
    /\ instruction_data = <<>>
    /\ instruction = <<>>
    /\ result = <<>>
    /\ log = <<>>
    /\ ret = "None"
    /\ exit = 0
    /\ prev = [exit |-> 0, ret |-> "None"]

\* the client builds an instruction, serializes it and sends the transaction
Submit(i) ==
    /\ pc = "idle"
    /\ sent' = <<i>>
    /\ instruction_data' = to_vec(i)
    /\ pc' = "decode"
    /\ UNCHANGED <<overflow_checks, instruction, result, log, ret, exit, prev>>

\* a client sends a payload that is no encoding of an instruction
SubmitMalformed(i, m) ==
    /\ pc = "idle"
    /\ sent' = <<>>
    /\ instruction_data' = Mangle(to_vec(i), m)
    /\ pc' = "decode"
    /\ UNCHANGED <<overflow_checks, instruction, result, log, ret, exit, prev>>

\* an arm's arithmetic ended: with a value, or with a panic, which aborts
\* the program without a return from process_instruction
Computed(outcome) ==
    IF outcome.panic
    THEN /\ ret' = "Panic"
         /\ pc' = "done"
         /\ UNCHANGED <<result, log, exit>>
    ELSE /\ result' = <<outcome.val>>
         /\ pc' = "result"
         /\ UNCHANGED <<ret, exit, log>>

\* an arm rejected its operands: msg!(text); return Err(..) at source line l
Rejected(text, l) ==
    /\ log' = Append(log, Line(text, <<>>))
    /\ ret' = "InvalidInstructionData"
    /\ exit' = l
    /\ pc' = "done"
    /\ UNCHANGED result

Decode ==
    /\ pc = "decode"
    /\ LET decoded == try_from_slice(instruction_data)
       IN IF decoded = <<>>
          THEN /\ ret' = "InvalidInstructionData"
               /\ exit' = 28
               /\ pc' = "done"
               /\ UNCHANGED instruction
          ELSE /\ instruction' = decoded
               /\ pc' = "dispatch"
               /\ UNCHANGED <<ret, exit>>
    /\ UNCHANGED <<overflow_checks, sent, instruction_data, result, log, prev>>

\* the msg! that opens each of the arms 0..5
TraceOperation ==
    /\ pc = "dispatch"
    /\ instruction[1].operation \in 0..5
    /\ log' = Append(log, Line(OperationFmt(instruction[1].operation),
                               <<instruction[1].left, instruction[1].right>>))
    /\ pc' = "compute"
    /\ UNCHANGED <<overflow_checks, sent, instruction_data, instruction, result,
                   ret, exit, prev>>

Add ==
    /\ pc = "compute"
    /\ instruction[1].operation = 0
    /\ Computed(i64_add(instruction[1].left, instruction[1].right, overflow_checks))
    /\ UNCHANGED <<overflow_checks, sent, instruction_data, instruction, prev>>

Subtract ==
    /\ pc = "compute"
    /\ instruction[1].operation = 1
    /\ Computed(i64_sub(instruction[1].left, instruction[1].right, overflow_checks))
    /\ UNCHANGED <<overflow_checks, sent, instruction_data, instruction, prev>>

Multiply ==
    /\ pc = "compute"
    /\ instruction[1].operation = 2
    /\ Computed(i64_mul(instruction[1].left, instruction[1].right, overflow_checks))
    /\ UNCHANGED <<overflow_checks, sent, instruction_data, instruction, prev>>

\* faulty variant of Divide: the zero test is made on the dividend, and the
\* division by zero it lets through panics
Divide_wrong_operand ==
    /\ pc = "compute"
    /\ instruction[1].operation = 3
    /\ IF instruction[1].left # Zero
       THEN Computed(IF instruction[1].right = Zero THEN Panicked
                     ELSE i64_checked_div(instruction[1].left, instruction[1].right))
       ELSE Rejected("Division by zero is not allowed", 49)
    /\ UNCHANGED <<overflow_checks, sent, instruction_data, instruction, prev>>

Divide ==
    /\ pc = "compute"
    /\ instruction[1].operation = 3
    /\ IF instruction[1].right # Zero
       THEN Computed(i64_checked_div(instruction[1].left, instruction[1].right))
       ELSE Rejected("Division by zero is not allowed", 49)
    /\ UNCHANGED <<overflow_checks, sent, instruction_data, instruction, prev>>

Modulo ==
    /\ pc = "compute"
    /\ instruction[1].operation = 4
    /\ IF instruction[1].right # Zero
       THEN Computed(i64_checked_rem(instruction[1].left, instruction[1].right))
       ELSE Rejected("Modulus by zero is not allowed", 58)
    /\ UNCHANGED <<overflow_checks, sent, instruction_data, instruction, prev>>

\* faulty variant of Power: the sign test is made on the base
Power_wrong_operand ==
    /\ pc = "compute"
    /\ instruction[1].operation = 5
    /\ IF ~IsNeg(instruction[1].left)
       THEN Computed(i64_pow(instruction[1].left, as_u32(instruction[1].right),
                             overflow_checks))
       ELSE Rejected("Negative exponent is not allowed", 67)
    /\ UNCHANGED <<overflow_checks, sent, instruction_data, instruction, prev>>

Power ==
    /\ pc = "compute"
    /\ instruction[1].operation = 5
    /\ IF ~IsNeg(instruction[1].right)
       THEN Computed(i64_pow(instruction[1].left, as_u32(instruction[1].right),
                             overflow_checks))
       ELSE Rejected("Negative exponent is not allowed", 67)
    /\ UNCHANGED <<overflow_checks, sent, instruction_data, instruction, prev>>

\* faulty variant of UnknownOperation: the arm logs and then falls through
\* to the successful return
UnknownOperation_no_return ==
    /\ pc = "dispatch"
    /\ instruction[1].operation \notin 0..5
    /\ log' = Append(log, Line("Unknown operation: {}", <<(<<instruction[1].operation>>)>>))
    /\ ret' = "Ok"
    /\ exit' = 78
    /\ pc' = "done"
    /\ UNCHANGED <<overflow_checks, sent, instruction_data, instruction, result, prev>>

UnknownOperation ==
    /\ pc = "dispatch"
    /\ instruction[1].operation \notin 0..5
    /\ log' = Append(log, Line("Unknown operation: {}", <<(<<instruction[1].operation>>)>>))
    /\ ret' = "InvalidInstructionData"
    /\ exit' = 72
    /\ pc' = "done"
    /\ UNCHANGED <<overflow_checks, sent, instruction_data, instruction, result, prev>>

\* faulty variant of EmitResult: success is returned without the result line
EmitResult_silent ==
    /\ pc = "result"
    /\ ret' = "Ok"
    /\ exit' = 78
    /\ pc' = "done"
    /\ UNCHANGED <<overflow_checks, sent, instruction_data, instruction, result,
                   log, prev>>

\* msg!("Result = {}", result); Ok(())
EmitResult ==
    /\ pc = "result"
    /\ log' = Append(log, ResultLine(result[1]))
    /\ ret' = "Ok"
    /\ exit' = 78
    /\ pc' = "done"
    /\ UNCHANGED <<overflow_checks, sent, instruction_data, instruction, result, prev>>

\* the host is done with the transaction; the program keeps nothing of it
Settle ==
    /\ pc = "done"
    /\ prev' = [exit |-> exit, ret |-> ret]
    /\ pc' = "idle"
    /\ sent' = <<>>
    /\ instruction_data' = <<>>
    /\ instruction' = <<>>
    /\ result' = <<>>
    /\ log' = <<>>
    /\ ret' = "None"
    /\ exit' = 0
    /\ UNCHANGED overflow_checks

Next ==
    \/ \E i \in Instructions : Submit(i)
    \/ \E i \in Seeds, m \in Trims : SubmitMalformed(i, m)
    \/ Decode
    \/ TraceOperation
    \/ Add
    \/ Subtract
    \/ Multiply
    \/ Divide
    \/ Modulo
    \/ Power
    \/ UnknownOperation
    \/ EmitResult
    \/ Settle

Spec == Init /\ [][Next]_vars

TypeOK ==
    /\ pc \in {"idle", "decode", "dispatch", "compute", "result", "done"}
    /\ ret \in {"None", "Ok", "InvalidInstructionData", "Panic"}
    /\ Len(instruction) <= 1
    /\ Len(result) <= 1

\* ------------------------------------------------------------------------
\* Reference arithmetic for the properties: exact results at double width
\* ------------------------------------------------------------------------
Low64(w) == SubSeq(w, 1, 4)

ExactSum(a, b) == AddCarry(SignExtend(a, 8), SignExtend(b, 8), 1, 0)

ExactDifference(a, b) ==
    AddCarry(SignExtend(a, 8), Not(SignExtend(b, 8)), 1, 1)

\* product of the magnitudes, negated when the signs differ
ExactProduct(a, b) ==
    LET ma == [i \in 1..8 |-> IF i <= 4 THEN unsigned_abs(a)[i] ELSE 0]
        mb == [i \in 1..8 |-> IF i <= 4 THEN unsigned_abs(b)[i] ELSE 0]
        m == MulTrunc(ma, mb)
    IN IF IsNeg(a) # IsNeg(b) THEN wrapping_neg(m) ELSE m

Exact(op, a, b) ==
    CASE op = 0 -> ExactSum(a, b)
      [] op = 1 -> ExactDifference(a, b)
      [] op = 2 -> ExactProduct(a, b)

\* is |a| < |b|, both taken as unsigned magnitudes
MagnitudeLess(a, b) == ~UGe(unsigned_abs(a), unsigned_abs(b))

\* is some bit above bit i of the 63-bit exponent e set
HigherBits(e, i) == \E j \in (i + 1)..62 : Bit(e, j) = 1

\* base^e over bits i..hi of the full 64-bit exponent e, by repeated
\* squaring on wrapped values; overflow records that some product did not fit
RECURSIVE RefPowBits(_, _, _, _)
RefPowBits(s, e, i, hi) ==
    IF i > hi THEN s
    ELSE LET take == Bit(e, i) = 1
             more == HigherBits(e, i)
             acc2 == IF take THEN wrapping_mul(s.acc, s.base) ELSE s.acc
             base2 == IF more THEN wrapping_mul(s.base, s.base) ELSE s.base
             o2 == \/ s.overflow
                   \/ take /\ mul_overflows(s.acc, s.base)
                   \/ more /\ mul_overflows(s.base, s.base)
         IN IF o2 \in BOOLEAN /\ UGe(acc2, Zero) /\ UGe(base2, Zero)
            THEN RefPowBits([acc |-> acc2, base |-> base2, overflow |-> o2],
                            e, i + 1, hi)
            ELSE s

RefPow(base, e) ==
    LET s0 == [acc |-> One, base |-> base, overflow |-> FALSE]
        s1 == RefPowBits(s0, e, 0, 15)
        s2 == RefPowBits(s1, e, 16, 31)
        s3 == RefPowBits(s2, e, 32, 47)
    IN RefPowBits(s3, e, 48, 62)

\* ------------------------------------------------------------------------
\* Properties
\* ------------------------------------------------------------------------
Decoded == instruction # <<>>
Op == instruction[1].operation
Left == instruction[1].left
Right == instruction[1].right
OperationLine == Line(OperationFmt(Op), <<Left, Right>>)
HasResultLine(l) == \E k \in 1..Len(l) : l[k].fmt = "Result = {}"

\* C1: a call with operation 0, 1 or 2 never ends in an instruction error;
\* it succeeds with exactly left+right, left-right, left*right when that
\* fits in an i64, and otherwise follows the one overflow policy of the
\* build: every such call wraps modulo 2^64, or every such call aborts.
C1_AddSubMul ==
    (pc = "done" /\ Decoded /\ Op \in {0, 1, 2}) =>
        LET exact == Exact(Op, Left, Right)
        IN /\ ret # "InvalidInstructionData"
           /\ IF Fits64(exact) \/ ~overflow_checks
              THEN /\ ret = "Ok"
                   /\ result = <<Low64(exact)>>
                   /\ log = <<OperationLine, ResultLine(Low64(exact))>>
              ELSE /\ ret = "Panic"
                   /\ result = <<>>

C1_Witness ==
    /\ pc = "done"
    /\ Decoded
    /\ Op = 2 /\ Left = I64_MAX /\ Right = Lit(2)
    /\ ~overflow_checks
    /\ ret = "Ok"
    /\ result = <<Lit(-2)>>

\* C2: Divide or Modulo with right = 0 fails, names the division by zero in
\* its trace, and neither computes nor emits a result.
C2_DivisionByZero ==
    (pc = "done" /\ Decoded /\ Op \in {3, 4} /\ Right = Zero) =>
        /\ ret = "InvalidInstructionData"
        /\ result = <<>>
        /\ exit = IF Op = 3 THEN 49 ELSE 58
        /\ log = <<OperationLine,
                   Line(IF Op = 3 THEN "Division by zero is not allowed"
                        ELSE "Modulus by zero is not allowed", <<>>)>>

C2_Witness ==
    /\ pc = "done"
    /\ Decoded
    /\ Op = 3 /\ Left = Lit(10) /\ Right = Zero
    /\ ret = "InvalidInstructionData"
    /\ ~HasResultLine(log)

\* C3: Power with right >= 0, also beyond 2^32 - 1, yields left to the
\* power right under the overflow policy of the build.
C3_PowerAnyExponent ==
    (pc = "done" /\ Decoded /\ Op = 5 /\ ~IsNeg(Right)) =>
        LET ref == RefPow(Left, Right)
        IN IF ref.overflow /\ overflow_checks
           THEN ret = "Panic"
           ELSE ret = "Ok" /\ result = <<ref.acc>>

\* C4: Power with right < 0 fails, names the negative exponent in its
\* trace, and neither computes nor emits a result.
C4_NegativeExponent ==
    (pc = "done" /\ Decoded /\ Op = 5 /\ IsNeg(Right)) =>
        /\ ret = "InvalidInstructionData"
        /\ result = <<>>
        /\ exit = 67
        /\ log = <<OperationLine, Line("Negative exponent is not allowed", <<>>)>>

C4_Witness ==
    /\ pc = "done"
    /\ Decoded
    /\ Op = 5 /\ Left = Lit(2) /\ Right = Lit(-1)
    /\ ret = "InvalidInstructionData"
    /\ ~HasResultLine(log)

\* C5: a selector outside 0..5 fails as an unknown operation, and what the
\* call returns and logs is determined by the selector alone.
C5_UnknownOperation ==
    (pc = "done" /\ Decoded /\ Op \notin 0..5) =>
        /\ ret = "InvalidInstructionData"
        /\ result = <<>>
        /\ exit = 72
        /\ log = <<Line("Unknown operation: {}", <<(<<Op>>)>>)>>

C5_Witness ==
    /\ pc = "done"
    /\ Decoded
    /\ Op = 9 /\ Left = Lit(1) /\ Right = Lit(1)
    /\ ret = "InvalidInstructionData"

\* C6: a payload that is not 17 bytes long fails at the decode, before any
\* dispatch on the selector: no instruction, no trace, no result.
C6_WrongLength ==
    (pc \notin {"idle", "decode"} /\ Len(instruction_data) # 17) =>
        /\ pc = "done"
        /\ ret = "InvalidInstructionData"
        /\ exit = 28
        /\ instruction = <<>>
        /\ log = <<>>
        /\ result = <<>>

C6_Witness ==
    /\ pc = "done"
    /\ Len(instruction_data) = 18
    /\ instruction_data[1] = 0
    /\ ret = "InvalidInstructionData"
    /\ exit = 28

\* C7: two calls that fail for different reasons (decode, unknown
\* operation, division by zero, negative exponent) return different errors.
FailureKind(e) ==
    CASE e = 28 -> "DecodeError"
      [] e \in {49, 58} -> "DivisionByZero"
      [] e = 67 -> "NegativeExponent"
      [] e = 72 -> "UnknownOperation"
      [] OTHER -> "none"

C7_DistinctErrors ==
    (/\ pc = "done"
     /\ FailureKind(exit) # "none"
     /\ FailureKind(prev.exit) # "none"
     /\ FailureKind(exit) # FailureKind(prev.exit)) => ret # prev.ret

\* C8: the encoding of an instruction is 17 bytes, the selector first, and
\* decoding it gives back the same operation, left and right.
C8_RoundTrip ==
    (pc # "idle" /\ sent # <<>>) =>
        /\ Len(instruction_data) = 17
        /\ instruction_data[1] = sent[1].operation
        /\ pc # "decode" => instruction = sent

C8_Witness ==
    /\ pc = "dispatch"
    /\ sent = <<CalculatorInstruction(255, I64_MIN, Lit(-2))>>
    /\ instruction = sent
    /\ instruction_data[9] = 128
    /\ instruction_data[10] = 254

\* C9: Divide and Modulo with right # 0 always succeed, also for
\* left = -2^63 and right = -1, with the quotient truncated toward zero and
\* the remainder r of the sign of left, left = (left / right) * right + r
\* and |r| < |right|.
C9_DivMod ==
    (pc = "done" /\ Decoded /\ Op \in {3, 4} /\ Right # Zero) =>
        /\ ret = "Ok"
        /\ result # <<>>
        /\ LET quo == IF Op = 3 THEN result[1] ELSE i64_div(Left, Right)
               rem == IF Op = 4 THEN result[1]
                      ELSE wrapping_sub(Left, wrapping_mul(quo, Right))
           IN /\ wrapping_add(wrapping_mul(quo, Right), rem) = Left
              /\ ~mul_overflows(quo, Right)
              /\ MagnitudeLess(rem, Right)
              /\ rem = Zero \/ IsNeg(rem) = IsNeg(Left)

\* C10: the operation's trace line is in the log before the operands are
\* checked and the result computed; the result line is emitted exactly by
\* the calls that return success, as their last line, and never by a call
\* that fails.
C10_TraceOrder ==
    /\ pc \in {"compute", "result"} => log = <<OperationLine>>
    /\ pc = "compute" => result = <<>>
    /\ pc # "done" => ~HasResultLine(log)
    /\ pc = "done" => (HasResultLine(log) <=> ret = "Ok")
    /\ (pc = "done" /\ ret = "Ok") => log = <<OperationLine, ResultLine(result[1])>>
    /\ (pc = "done" /\ Decoded /\ Op \in 0..5) => log[1] = OperationLine

C10_Witness ==
    /\ pc = "done"
    /\ ret = "Ok"
    /\ log = <<Line("Addition: {} + {}", <<Lit(10), Lit(2)>>), ResultLine(Lit(12))>>
====
